---- MODULE Spec2Model ----
(***************************************************************************)
(* Model of app/main.py: the /verify handler (verify_repository) and the   *)
(* /convert-to-async handler (convert_to_async), served by one asyncio     *)
(* event loop.                                                             *)
(*                                                                         *)
(* Strings are sequences of tokens.  A URL is the text after the scheme    *)
(* "https://": the token "G" is the literal text github.com, "/" is a      *)
(* slash, and "a" is any other character.  A language name is a sequence   *)
(* of one-letter strings.                                                  *)
(***************************************************************************)
EXTENDS Integers, Sequences, FiniteSets, TLC

\* ---------------------------------------------------------------- bounds
MaxUrlLen == 6
MaxFiles == 2
MaxFunctions == 2
MaxChains == 2
MaxLangs == 2

\* ------------------------------------------------------------- constants
StatusOK == 200
StatusBadRequest == 400
StatusServerError == 500

\* ------------------------------------------------------- string helpers
UrlTokens == {"G", "/", "a"}

RECURSIVE LStrip(_, _)
LStrip(s, c) == IF s # <<>> /\ Head(s) = c THEN LStrip(Tail(s), c) ELSE s

RECURSIVE RStrip(_, _)
RStrip(s, c) ==
  IF s # <<>> /\ s[Len(s)] = c THEN RStrip(SubSeq(s, 1, Len(s) - 1), c) ELSE s

\* str.strip(c)
Strip(s, c) == RStrip(LStrip(s, c), c)

\* index of the first c in s at or after position i, Len(s)+1 when none
RECURSIVE FindFrom(_, _, _)
FindFrom(s, c, i) ==
  IF i > Len(s) THEN Len(s) + 1
  ELSE IF s[i] = c THEN i ELSE FindFrom(s, c, i + 1)

\* str.split(c): "" splits to [""], "a//b" to ["a", "", "b"]
RECURSIVE Split(_, _)
Split(s, c) ==
  LET k == FindFrom(s, c, 1)
  IN IF k > Len(s) THEN <<s>>
     ELSE <<SubSeq(s, 1, k - 1)>> \o Split(SubSeq(s, k + 1, Len(s)), c)

\* urlparse(url).netloc and .path of "https://" + url
Netloc(url) == SubSeq(url, 1, FindFrom(url, "/", 1) - 1)
Path(url) == SubSeq(url, FindFrom(url, "/", 1), Len(url))

\* length of the greedy [^/]+ run of s starting at position i
RunLen(s, i) == FindFrom(s, "/", i) - i

\* does github\.com/([^/]+)/([^/]+) match s starting at position i
MatchAt(s, i) ==
  /\ i + 1 <= Len(s)
  /\ s[i] = "G"
  /\ s[i + 1] = "/"
  /\ RunLen(s, i + 2) >= 1
  /\ i + 2 + RunLen(s, i + 2) <= Len(s)
  /\ RunLen(s, i + 3 + RunLen(s, i + 2)) >= 1

\* re.search: leftmost matching position, 0 when there is no match
RECURSIVE SearchFrom(_, _)
SearchFrom(s, i) ==
  IF i > Len(s) THEN 0
  ELSE IF MatchAt(s, i) THEN i ELSE SearchFrom(s, i + 1)

ReSearch(s) == SearchFrom(s, 1)

\* match.group(1) of github\.com/([^/]+/[^/]+): the text owner/repo
MatchGroup(s) ==
  LET i == ReSearch(s)
      n1 == RunLen(s, i + 2)
      n2 == RunLen(s, i + 3 + n1)
  IN SubSeq(s, i + 2, i + 2 + n1 + n2)

\* str(url).split("github.com/")[-1]: the text after the last "github.com/",
\* the whole string (scheme included) when it does not occur
RECURSIVE LastGithubSlash(_, _)
LastGithubSlash(s, i) ==
  IF i < 1 THEN 0
  ELSE IF i + 1 <= Len(s) /\ s[i] = "G" /\ s[i + 1] = "/" THEN i
  ELSE LastGithubSlash(s, i - 1)

AfterGithub(url) ==
  LET i == LastGithubSlash(url, Len(url))
  IN IF i = 0 THEN <<"https://">> \o url ELSE SubSeq(url, i + 2, Len(url))

\* ----------------------------------------------------- language names
UpperLetters == <<"A", "B", "C", "D", "E", "F", "G", "H", "I", "J", "K", "L", "M",
                  "N", "O", "P", "Q", "R", "S", "T", "U", "V", "W", "X", "Y", "Z">>
LowerLetters == <<"a", "b", "c", "d", "e", "f", "g", "h", "i", "j", "k", "l", "m",
                  "n", "o", "p", "q", "r", "s", "t", "u", "v", "w", "x", "y", "z">>

LowerChar(c) ==
  IF \E i \in 1..26 : UpperLetters[i] = c
  THEN LowerLetters[CHOOSE i \in 1..26 : UpperLetters[i] = c]
  ELSE c

\* str.lower()
Lower(s) == [i \in 1..Len(s) |-> LowerChar(s[i])]

javascript == <<"j", "a", "v", "a", "s", "c", "r", "i", "p", "t">>
typescript == <<"t", "y", "p", "e", "s", "c", "r", "i", "p", "t">>

\* any(lang.lower() in ["javascript", "typescript"] for lang in languages.keys())
IsJsTs_NoLower(languages) ==
  \E lang \in DOMAIN languages : lang \in {javascript, typescript}

IsJsTs(languages) ==
  \E lang \in DOMAIN languages : Lower(lang) \in {javascript, typescript}

\* language names GitHub may report
LangNames ==
  { <<"J", "a", "v", "a", "S", "c", "r", "i", "p", "t">>,
    <<"T", "y", "p", "e", "S", "c", "r", "i", "p", "t">>,
    <<"T", "Y", "P", "E", "S", "C", "R", "I", "P", "T">>,
    javascript,
    <<"J", "a", "v", "a">>,
    <<"P", "y", "t", "h", "o", "n">>,
    <<"T", "y", "p", "e", "S", "c", "r", "i", "p", "t", "X">> }

LanguageMaps ==
  UNION { [S -> {1, 2}] : S \in { T \in SUBSET LangNames : Cardinality(T) <= MaxLangs } }

\* what the GitHub languages endpoint answers: a transport failure, or a
\* status code with a body (the language map on 200, an error text otherwise)
NoLanguages == [x \in {} |-> 0]

Upstreams ==
  { [kind |-> "transport", status_code |-> 0, text |-> "connect failed", json |-> NoLanguages] }
  \cup { [kind |-> "response", status_code |-> c, text |-> "upstream error body", json |-> NoLanguages]
         : c \in {403, 404, StatusServerError} }
  \cup { [kind |-> "response", status_code |-> StatusOK, text |-> "languages", json |-> m]
         : m \in LanguageMaps }

\* ------------------------------------------------------------ requests
\* RepoRequest.github_url: HttpUrl, a URL with a non-empty host
Urls ==
  { u \in UNION { [1..n -> UrlTokens] : n \in 1..MaxUrlLen } : u[1] # "/" }

GoodUrl == <<"G", "/", "a", "/", "a">>

\* ---------------------------------------------- the transformation engine
\* the tree Codebase.from_repo yields: codebase.files, codebase.functions,
\* each function with filepath, name and promise_chains
FunctionShapes(n) == [filepath : 1..n, chains : 0..MaxChains]

Tree(n, shapes) ==
  [files |-> n,
   functions |-> [i \in 1..Len(shapes) |->
                    [filepath |-> shapes[i].filepath,
                     name |-> i,
                     promise_chains |-> [j \in 1..shapes[i].chains |-> j]]]]

Repos ==
  UNION { { Tree(n, shapes) :
              shapes \in UNION { [1..k -> FunctionShapes(n)] : k \in 0..MaxFunctions } }
          : n \in 0..MaxFiles }

NoTree == [files |-> 0, functions |-> <<>>]

\* one function with one promise chain in one file
SmallRepo == Tree(1, <<[filepath |-> 1, chains |-> 1]>>)

\* one function with two promise chains, then one with one chain
TwoFunctionRepo ==
  Tree(1, <<[filepath |-> 1, chains |-> 2], [filepath |-> 1, chains |-> 1]>>)

\* ------------------------------------------------------------- the state
Converts == {"c1", "c2"}

\* the task the event loop is executing, "idle" when none
VARIABLE running
\* verify_repository: position of the handler
VARIABLE vpc
\* verify_repository: request.github_url
VARIABLE vurl
\* what the GitHub languages endpoint answers
VARIABLE upstream
\* verify_repository: what the caller receives
VARIABLE vresp
\* GET /repos/{owner}/{repo}/languages requests sent
VARIABLE github_calls
\* Codebase.from_repo(repo_path) calls made
VARIABLE from_repo_calls
\* the remote repository the engine reads
VARIABLE repo
\* rewritten chains the last successful commit persisted
VARIABLE persisted
\* convert_to_async: position of each handler
VARIABLE cpc
\* convert_to_async: request.github_url
VARIABLE curl
\* convert_to_async: repo_path, <<>> while unbound
VARIABLE repo_path
\* convert_to_async: the acquired tree
VARIABLE codebase
\* chains <<function, chain>> rewritten in the acquired tree
VARIABLE rewritten
\* convert_to_async: conversion_stats
VARIABLE conversion_stats
\* convert_to_async: converted_functions
VARIABLE converted_functions
\* index of the function the for loop is at
VARIABLE fi
\* index of the chain the inner for loop is at
VARIABLE ci
\* the exception on its way to the outer except clauses
VARIABLE exc
\* codebase.commit() calls: the chains each one carried
VARIABLE commits
\* convert_to_async: the ConversionResponse returned
VARIABLE cresp

vvars == <<vpc, vurl, upstream, vresp, github_calls>>
cvars == <<from_repo_calls, repo, persisted, cpc, curl, repo_path, codebase,
           rewritten, conversion_stats, converted_functions, fi, ci, exc,
           commits, cresp>>
vars == <<running, vpc, vurl, upstream, vresp, github_calls, from_repo_calls,
          repo, persisted, cpc, curl, repo_path, codebase, rewritten,
          conversion_stats, converted_functions, fi, ci, exc, commits, cresp>>

\* --------------------------------------------------------- the event loop
\* An async def handler runs on the event loop and keeps it until it awaits
\* or returns.  verify_repository awaits client.get; convert_to_async awaits
\* nothing.
Yields_AwaitFromRepo(label) == label \in {"await_get", "done", "loop"}

Yields(label) == label \in {"await_get", "done"}

CanRun(t) == running \in {"idle", t}

RunningAfter(t, label) == IF Yields(label) THEN "idle" ELSE t

\* ------------------------------------------------------------ exceptions
NoException == [type |-> "none", status_code |-> 0, detail |-> <<>>]

HTTPException(status_code, detail) ==
  [type |-> "HTTPException", status_code |-> status_code, detail |-> detail]

Exception(message) ==
  [type |-> "Exception", status_code |-> 0, detail |-> message]

\* str(e): "<status_code>: <detail>" for an HTTPException, the message otherwise
Str(e) ==
  IF e.type = "HTTPException"
  THEN <<ToString(e.status_code), ": ">> \o e.detail
  ELSE e.detail

\* ------------------------------------------------------ verify_repository
NoVerification ==
  [kind |-> "none", status_code |-> 0, detail |-> <<>>, repository |-> <<>>,
   is_javascript_typescript |-> FALSE, languages |-> NoLanguages]

\* an HTTPException leaving the handler: FastAPI answers with its status code
\* and detail
HttpError(e) ==
  [kind |-> "error", status_code |-> e.status_code, detail |-> e.detail,
   repository |-> <<>>, is_javascript_typescript |-> FALSE,
   languages |-> NoLanguages]

VerificationResponse(repository, is_js_ts, languages) ==
  [kind |-> "ok", status_code |-> StatusOK, detail |-> <<>>,
   repository |-> repository, is_javascript_typescript |-> is_js_ts,
   languages |-> languages]

\* path_parts = parsed_url.path.strip('/').split('/')
PathParts(url) == Split(Strip(Path(url), "/"), "/")

\* lines 64-85: parse the URL, raise 400 or send the languages request and
\* suspend at the await
VerifyParse ==
  /\ vpc = "pending"
  /\ CanRun("v")
  /\ IF Netloc(vurl) # <<"G">>
     THEN /\ vresp' = HttpError(HTTPException(StatusBadRequest, <<"URL must be from github.com">>))
          /\ vpc' = "done"
          /\ UNCHANGED github_calls
     ELSE IF Len(PathParts(vurl)) < 2
     THEN /\ vresp' = HttpError(HTTPException(StatusBadRequest, <<"Invalid GitHub repository URL">>))
          /\ vpc' = "done"
          /\ UNCHANGED github_calls
     ELSE /\ github_calls' = Append(github_calls,
                                    [owner |-> PathParts(vurl)[1], repo |-> PathParts(vurl)[2]])
          /\ vpc' = "await_get"
          /\ UNCHANGED vresp
  /\ running' = RunningAfter("v", vpc')
  /\ UNCHANGED <<vurl, upstream>>
  /\ UNCHANGED cvars

\* lines 82-102, the body of the try: what it raises, or what it returns
VerifyTry(response, repo_full_name) ==
  IF response.kind = "transport"
  THEN [raised |-> TRUE, exc |-> Exception(<<response.text>>), value |-> NoVerification]
  ELSE IF response.status_code # StatusOK
  THEN [raised |-> TRUE,
        exc |-> HTTPException(response.status_code, <<"GitHub API error: ", response.text>>),
        value |-> NoVerification]
  ELSE [raised |-> FALSE, exc |-> NoException,
        value |-> VerificationResponse(repo_full_name, IsJsTs(response.json), response.json)]

\* lines 104-105: except Exception as e: raise HTTPException(500, ...)
VerifyExcept(e) ==
  HTTPException(StatusServerError, <<"Error processing request: ">> \o Str(e))

\* lines 86-105: the answer of GitHub arrives and the handler resumes
VerifyResume ==
  /\ vpc = "await_get"
  /\ CanRun("v")
  /\ LET call == github_calls[Len(github_calls)]
         res == VerifyTry(upstream, call.owner \o <<"/">> \o call.repo)
     IN vresp' = IF res.raised THEN HttpError(VerifyExcept(res.exc)) ELSE res.value
  /\ vpc' = "done"
  /\ running' = RunningAfter("v", vpc')
  /\ UNCHANGED <<vurl, upstream, github_calls>>
  /\ UNCHANGED cvars

\* ------------------------------------------------------- convert_to_async
ZeroStats ==
  [files_scanned |-> 0, promise_chains_found |-> 0, promises_converted |-> 0,
   files_modified |-> 0]

\* Optional[str]: None, or a string (which may be empty)
None == [is_none |-> TRUE, text |-> <<>>]
Some(text) == [is_none |-> FALSE, text |-> text]

NoConversion ==
  [status |-> "none", repository |-> <<>>, statistics |-> ZeroStats,
   converted_functions |-> <<>>, error |-> None]

\* lines 139-152
create_error_response_NonZero(github_url, path, error_detail) ==
  [status |-> "error",
   repository |-> IF path # <<>> THEN path ELSE RStrip(AfterGithub(github_url), "/"),
   statistics |-> [ZeroStats EXCEPT !.files_scanned = 1],
   converted_functions |-> <<>>,
   error |-> Some(error_detail)]

create_error_response(github_url, path, error_detail) ==
  [status |-> "error",
   repository |-> IF path # <<>> THEN path ELSE RStrip(AfterGithub(github_url), "/"),
   statistics |-> ZeroStats,
   converted_functions |-> <<>>,
   error |-> Some(error_detail)]

PromiseConversion(function) ==
  [file_path |-> function.filepath,
   function_name |-> function.name,
   promises_found |-> Len(function.promise_chains),
   promises_converted |-> Len(function.promise_chains)]

\* line 188
CountFound_One(stats, function) ==
  [stats EXCEPT !.promise_chains_found = @ + 1]

CountFound(stats, function) ==
  [stats EXCEPT !.promise_chains_found = @ + Len(function.promise_chains)]

\* line 210: if converted_functions
ShouldCommit_Always(records) == TRUE

ShouldCommit(records) == records # <<>>

\* lines 161-165: match the URL, bind repo_path or raise 400
ConvParse(r) ==
  /\ cpc[r] = "pending"
  /\ CanRun(r)
  /\ IF ReSearch(curl[r]) = 0
     THEN /\ exc' = [exc EXCEPT ![r] = HTTPException(StatusBadRequest, <<"Invalid GitHub repository URL">>)]
          /\ cpc' = [cpc EXCEPT ![r] = "except"]
          /\ UNCHANGED repo_path
     ELSE /\ repo_path' = [repo_path EXCEPT ![r] = MatchGroup(curl[r])]
          /\ cpc' = [cpc EXCEPT ![r] = "acquire"]
          /\ UNCHANGED exc
  /\ running' = RunningAfter(r, cpc'[r])
  /\ UNCHANGED <<from_repo_calls, repo, persisted, curl, codebase, rewritten,
                 conversion_stats, converted_functions, fi, ci, commits, cresp>>
  /\ UNCHANGED vvars

\* lines 168-183: Codebase.from_repo, then the empty report
ConvAcquire(r) ==
  /\ cpc[r] = "acquire"
  /\ CanRun(r)
  /\ from_repo_calls' = Append(from_repo_calls, [task |-> r, repo_path |-> repo_path[r]])
  /\ \E ok \in BOOLEAN :
       IF ok
       THEN /\ codebase' = [codebase EXCEPT ![r] = repo]
            /\ conversion_stats' = [conversion_stats EXCEPT
                                      ![r] = [ZeroStats EXCEPT !.files_scanned = repo.files]]
            /\ fi' = [fi EXCEPT ![r] = 1]
            /\ cpc' = [cpc EXCEPT ![r] = "loop"]
            /\ UNCHANGED exc
       ELSE /\ exc' = [exc EXCEPT ![r] = HTTPException(StatusServerError,
                                  <<"Failed to initialize codebase: ", "clone failed">>)]
            /\ cpc' = [cpc EXCEPT ![r] = "except"]
            /\ UNCHANGED <<codebase, conversion_stats, fi>>
  /\ running' = RunningAfter(r, cpc'[r])
  /\ UNCHANGED <<repo, persisted, curl, repo_path, rewritten, converted_functions,
                 ci, commits, cresp>>
  /\ UNCHANGED vvars

\* lines 186-188: the head of the for loop over codebase.functions
ConvNextFunction(r) ==
  /\ cpc[r] = "loop"
  /\ CanRun(r)
  /\ IF fi[r] > Len(codebase[r].functions)
     THEN /\ cpc' = [cpc EXCEPT ![r] = "commit"]
          /\ UNCHANGED <<conversion_stats, fi, ci>>
     ELSE LET function == codebase[r].functions[fi[r]]
          IN IF function.promise_chains # <<>>
             THEN /\ conversion_stats' = [conversion_stats EXCEPT
                        ![r] = CountFound(@, function)]
                  /\ ci' = [ci EXCEPT ![r] = 1]
                  /\ cpc' = [cpc EXCEPT ![r] = "chains"]
                  /\ UNCHANGED fi
             ELSE /\ fi' = [fi EXCEPT ![r] = @ + 1]
                  /\ UNCHANGED <<conversion_stats, ci, cpc>>
  /\ running' = RunningAfter(r, cpc'[r])
  /\ UNCHANGED <<from_repo_calls, repo, persisted, curl, repo_path, codebase,
                 rewritten, converted_functions, exc, commits, cresp>>
  /\ UNCHANGED vvars

\* lines 186-187: the engine raises while the functions are enumerated
ConvEngineError(r) ==
  /\ cpc[r] = "loop"
  /\ CanRun(r)
  /\ fi[r] <= Len(codebase[r].functions)
  /\ \E message \in {<<"engine failure">>, <<>>} :
       exc' = [exc EXCEPT ![r] = Exception(message)]
  /\ cpc' = [cpc EXCEPT ![r] = "except"]
  /\ running' = RunningAfter(r, cpc'[r])
  /\ UNCHANGED <<from_repo_calls, repo, persisted, curl, repo_path, codebase,
                 rewritten, conversion_stats, converted_functions, fi, ci,
                 commits, cresp>>
  /\ UNCHANGED vvars

\* lines 192-194 and 206-207: rewrite the next chain; a failure leaves the
\* function without a record and the loop goes on with the next function
ConvRewriteChain(r) ==
  /\ cpc[r] = "chains"
  /\ CanRun(r)
  /\ LET function == codebase[r].functions[fi[r]]
     IN \E ok \in BOOLEAN :
          IF ok
          THEN /\ rewritten' = [rewritten EXCEPT ![r] = @ \cup {<<fi[r], ci[r]>>}]
               /\ conversion_stats' = [conversion_stats EXCEPT ![r].promises_converted = @ + 1]
               /\ ci' = [ci EXCEPT ![r] = @ + 1]
               /\ cpc' = [cpc EXCEPT ![r] =
                            IF ci[r] + 1 > Len(function.promise_chains) THEN "record" ELSE "chains"]
               /\ UNCHANGED fi
          ELSE /\ fi' = [fi EXCEPT ![r] = @ + 1]
               /\ cpc' = [cpc EXCEPT ![r] = "loop"]
               /\ UNCHANGED <<rewritten, conversion_stats, ci>>
  /\ running' = RunningAfter(r, cpc'[r])
  /\ UNCHANGED <<from_repo_calls, repo, persisted, curl, repo_path, codebase,
                 converted_functions, exc, commits, cresp>>
  /\ UNCHANGED vvars

\* lines 197-205: append the record, then count the file when its path is
\* not among the records
ConvRecord(r) ==
  /\ cpc[r] = "record"
  /\ CanRun(r)
  /\ LET function == codebase[r].functions[fi[r]]
         records == Append(converted_functions[r], PromiseConversion(function))
     IN /\ converted_functions' = [converted_functions EXCEPT ![r] = records]
        /\ conversion_stats' = [conversion_stats EXCEPT ![r].files_modified =
             IF function.filepath \notin { records[i].file_path : i \in 1..Len(records) }
             THEN @ + 1 ELSE @]
  /\ fi' = [fi EXCEPT ![r] = @ + 1]
  /\ cpc' = [cpc EXCEPT ![r] = "loop"]
  /\ running' = RunningAfter(r, cpc'[r])
  /\ UNCHANGED <<from_repo_calls, repo, persisted, curl, repo_path, codebase,
                 rewritten, ci, exc, commits, cresp>>
  /\ UNCHANGED vvars

\* lines 210-217: commit the tree when there are records
ConvCommit(r) ==
  /\ cpc[r] = "commit"
  /\ CanRun(r)
  /\ IF ShouldCommit(converted_functions[r])
     THEN /\ commits' = [commits EXCEPT ![r] = Append(@, rewritten[r])]
          /\ \E ok \in BOOLEAN :
               IF ok
               THEN /\ persisted' = rewritten[r]
                    /\ cpc' = [cpc EXCEPT ![r] = "return"]
                    /\ UNCHANGED exc
               ELSE /\ exc' = [exc EXCEPT ![r] = HTTPException(StatusServerError,
                                     <<"Failed to commit changes: ", "push rejected">>)]
                    /\ cpc' = [cpc EXCEPT ![r] = "except"]
                    /\ UNCHANGED persisted
     ELSE /\ cpc' = [cpc EXCEPT ![r] = "return"]
          /\ UNCHANGED <<commits, persisted, exc>>
  /\ running' = RunningAfter(r, cpc'[r])
  /\ UNCHANGED <<from_repo_calls, repo, curl, repo_path, codebase, rewritten,
                 conversion_stats, converted_functions, fi, ci, cresp>>
  /\ UNCHANGED vvars

\* lines 219-224
ConvReturn(r) ==
  /\ cpc[r] = "return"
  /\ CanRun(r)
  /\ cresp' = [cresp EXCEPT ![r] =
                 [status |-> "success", repository |-> repo_path[r],
                  statistics |-> conversion_stats[r],
                  converted_functions |-> converted_functions[r],
                  error |-> None]]
  /\ cpc' = [cpc EXCEPT ![r] = "done"]
  /\ running' = RunningAfter(r, cpc'[r])
  /\ UNCHANGED <<from_repo_calls, repo, persisted, curl, repo_path, codebase,
                 rewritten, conversion_stats, converted_functions, fi, ci, exc,
                 commits>>
  /\ UNCHANGED vvars

\* lines 226-229: both except clauses answer with create_error_response,
\* with he.detail for an HTTPException and str(e) otherwise
ConvExcept(r) ==
  /\ cpc[r] = "except"
  /\ CanRun(r)
  /\ cresp' = [cresp EXCEPT ![r] =
                 create_error_response(curl[r], repo_path[r],
                   IF exc[r].type = "HTTPException" THEN exc[r].detail ELSE Str(exc[r]))]
  /\ cpc' = [cpc EXCEPT ![r] = "done"]
  /\ running' = RunningAfter(r, cpc'[r])
  /\ UNCHANGED <<from_repo_calls, repo, persisted, curl, repo_path, codebase,
                 rewritten, conversion_stats, converted_functions, fi, ci, exc,
                 commits>>
  /\ UNCHANGED vvars

\* ------------------------------------------------------------ the system
\* a language map with a TypeScript entry
SomeLanguages == [k \in {<<"T", "y", "p", "e", "S", "c", "r", "i", "p", "t">>} |-> 1]

SmallUpstreams ==
  { u \in Upstreams : u.kind = "response" /\ u.status_code = 404 }
  \cup { u \in Upstreams : u.kind = "response" /\ u.status_code = StatusOK
                           /\ u.json = SomeLanguages }

InitLocals ==
  /\ running = "idle"
  /\ vresp = NoVerification
  /\ github_calls = <<>>
  /\ from_repo_calls = <<>>
  /\ persisted = {}
  /\ repo_path = [r \in Converts |-> <<>>]
  /\ codebase = [r \in Converts |-> NoTree]
  /\ rewritten = [r \in Converts |-> {}]
  /\ conversion_stats = [r \in Converts |-> ZeroStats]
  /\ converted_functions = [r \in Converts |-> <<>>]
  /\ fi = [r \in Converts |-> 0]
  /\ ci = [r \in Converts |-> 0]
  /\ exc = [r \in Converts |-> NoException]
  /\ commits = [r \in Converts |-> <<>>]
  /\ cresp = [r \in Converts |-> NoConversion]

\* one verify request and one convert request for the same URL, every URL
InitUrls ==
  /\ InitLocals
  /\ \E u \in Urls : vurl = u /\ curl = [r \in Converts |-> u]
  /\ upstream \in SmallUpstreams
  /\ repo = SmallRepo
  /\ vpc = "pending"
  /\ cpc = [r \in Converts |-> IF r = "c1" THEN "pending" ELSE "idle"]

\* one verify request, every answer of GitHub
InitUpstreams ==
  /\ InitLocals
  /\ vurl = GoodUrl
  /\ curl = [r \in Converts |-> GoodUrl]
  /\ upstream \in Upstreams
  /\ repo = SmallRepo
  /\ vpc = "pending"
  /\ cpc = [r \in Converts |-> "idle"]

\* one convert request, every repository
InitRepos ==
  /\ InitLocals
  /\ vurl = GoodUrl
  /\ curl = [r \in Converts |-> GoodUrl]
  /\ upstream \in { u \in SmallUpstreams : u.status_code = StatusOK }
  /\ repo \in Repos
  /\ vpc = "idle"
  /\ cpc = [r \in Converts |-> IF r = "c1" THEN "pending" ELSE "idle"]

\* a verify request and two convert requests for the same repository,
\* all received before any is served
InitConcurrent ==
  /\ InitLocals
  /\ vurl = GoodUrl
  /\ curl = [r \in Converts |-> GoodUrl]
  /\ upstream \in SmallUpstreams
  /\ repo \in {SmallRepo, TwoFunctionRepo}
  /\ vpc = "pending"
  /\ cpc = [r \in Converts |-> "pending"]

Init == InitUrls \/ InitUpstreams \/ InitRepos \/ InitConcurrent

Conv(r) ==
  \/ ConvParse(r)
  \/ ConvAcquire(r)
  \/ ConvNextFunction(r)
  \/ ConvEngineError(r)
  \/ ConvRewriteChain(r)
  \/ ConvRecord(r)
  \/ ConvCommit(r)
  \/ ConvReturn(r)
  \/ ConvExcept(r)

Next ==
  \/ VerifyParse
  \/ VerifyResume
  \/ \E r \in Converts : Conv(r)

Spec == Init /\ [][Next]_vars

\* the event loop runs every handler that can run
ConcurrentSpec ==
  /\ InitConcurrent
  /\ [][Next]_vars
  /\ WF_vars(Next)

\* ------------------------------------------------------------ properties
Range(f) == { f[x] : x \in DOMAIN f }

RECURSIVE SumConverted(_)
SumConverted(records) ==
  IF records = <<>> THEN 0
  ELSE Head(records).promises_converted + SumConverted(Tail(records))

\* a equals b when compared case-insensitively
SameIgnoringCase(a, b) ==
  /\ Len(a) = Len(b)
  /\ \A i \in 1..Len(a) : LowerChar(a[i]) = LowerChar(b[i])

\* the URL has the form github.com/<owner>/<repo>, owner and repo non-empty
\* and free of slashes
MatchesPattern(url) ==
  \E i \in 1..Len(url), j \in 1..Len(url), k \in 1..Len(url) :
    /\ i + 1 < j /\ j + 1 <= k
    /\ url[i] = "G" /\ url[i + 1] = "/" /\ url[j] = "/"
    /\ \A x \in (i + 2)..(j - 1) : url[x] # "/"
    /\ \A x \in (j + 1)..k : url[x] # "/"

\* the functions convert_to_async has gone past with a chain left unrewritten
FailedFunctions(r) ==
  { i \in 1..Len(codebase[r].functions) :
      /\ i < fi[r]
      /\ \E j \in 1..Len(codebase[r].functions[i].promise_chains) :
           <<i, j>> \notin rewritten[r] }

\* the request has a repository handle and has not invoked commit
BetweenAcquireAndCommit(r) == cpc[r] \in {"loop", "chains", "record", "commit"}

\* C1: when the languages call answers with a status other than 200, the
\* caller of verify_repository receives that same status code, and the
\* detail carries the upstream body.
C1_UpstreamStatusForwarded ==
  (vpc = "done" /\ github_calls # <<>> /\ upstream.kind = "response"
     /\ upstream.status_code # StatusOK)
  => /\ vresp.kind = "error"
     /\ vresp.status_code = upstream.status_code
     /\ upstream.text \in Range(vresp.detail)

\* C2: between two functions of a run, a function one of whose chain
\* rewrites failed has no record, and promises_converted counts none of
\* that function's chains.
C2_FailedFunctionNotCounted ==
  \A r \in Converts :
    cpc[r] \in {"loop", "commit", "return"}
    => /\ \A k \in 1..Len(converted_functions[r]) :
            converted_functions[r][k].function_name \notin FailedFunctions(r)
       /\ conversion_stats[r].promises_converted =
            Cardinality({ c \in rewritten[r] : c[1] \notin FailedFunctions(r) })

\* C3: in a successful response files_modified is the number of distinct
\* file paths among the records.
C3_FilesModifiedIsDistinctFiles ==
  \A r \in Converts :
    (cpc[r] = "done" /\ cresp[r].status = "success")
    => cresp[r].statistics.files_modified =
         Cardinality({ cresp[r].converted_functions[k].file_path :
                         k \in 1..Len(cresp[r].converted_functions) })

\* C4: a URL that is not of the form github.com/<owner>/<repo> makes both
\* handlers fail with the invalid-URL error without any outbound call, and
\* every outbound call carries a non-empty owner and a non-empty repo.
C4_InvalidUrlNoOutboundCall ==
  /\ (vpc # "idle" /\ ~MatchesPattern(vurl))
     => /\ github_calls = <<>>
        /\ vpc = "done" => (vresp.kind = "error" /\ vresp.status_code = StatusBadRequest)
  /\ \A r \in Converts :
       (cpc[r] # "idle" /\ ~MatchesPattern(curl[r]))
       => /\ \A k \in 1..Len(from_repo_calls) : from_repo_calls[k].task # r
          /\ cpc[r] = "done"
             => (cresp[r].status = "error"
                 /\ cresp[r].error = Some(<<"Invalid GitHub repository URL">>))
  /\ \A k \in 1..Len(github_calls) :
       github_calls[k].owner # <<>> /\ github_calls[k].repo # <<>>
  /\ \A k \in 1..Len(from_repo_calls) :
       LET parts == Split(from_repo_calls[k].repo_path, "/")
       IN Len(parts) = 2 /\ parts[1] # <<>> /\ parts[2] # <<>>

\* C5: convert_to_async always answers with a ConversionResponse; after any
\* failure the response has status "error", four zero statistics, no
\* converted functions and a non-null error.
C5_FailureGivesZeroedErrorResponse ==
  \A r \in Converts :
    /\ cpc[r] = "done" => cresp[r].status \in {"success", "error"}
    /\ (cpc[r] = "done" /\ exc[r].type # "none")
       => /\ cresp[r].status = "error"
          /\ cresp[r].statistics = ZeroStats
          /\ cresp[r].converted_functions = <<>>
          /\ ~cresp[r].error.is_none

C5_Witness ==
  \E r \in Converts :
    /\ cpc[r] = "done"
    /\ exc[r].type = "HTTPException"
    /\ commits[r] # <<>>
    /\ conversion_stats[r].promises_converted > 0
    /\ cresp[r].status = "error"

\* C6: commit is invoked at most once per request, only after the last
\* function, and exactly when converted_functions is non-empty; a run
\* without records invokes no commit and, when the engine raised nothing,
\* returns success with files_scanned the number of files and no records.
C6_CommitOnceAfterLoopIffRecords ==
  \A r \in Converts :
    /\ Len(commits[r]) <= 1
    /\ commits[r] # <<>>
       => /\ fi[r] = Len(codebase[r].functions) + 1
          /\ converted_functions[r] # <<>>
    /\ (cpc[r] \in {"return", "done"} /\ exc[r].type = "none" /\ converted_functions[r] # <<>>)
       => Len(commits[r]) = 1
    /\ (cpc[r] = "done" /\ exc[r].type = "none")
       => /\ cresp[r].status = "success"
          /\ cresp[r].statistics.files_scanned = repo.files
          /\ cresp[r].converted_functions = converted_functions[r]

C6_Witness ==
  \E r \in Converts :
    /\ cpc[r] = "done"
    /\ cresp[r].status = "success"
    /\ cresp[r].converted_functions = <<>>
    /\ cresp[r].statistics.promise_chains_found > 0
    /\ commits[r] = <<>>

\* C7: at every point of a run and in every response, each record has
\* promises_converted <= promises_found and the statistics have
\* promises_converted <= promise_chains_found.
C7_ConvertedAtMostFound ==
  \A r \in Converts :
    /\ \A k \in 1..Len(converted_functions[r]) :
         converted_functions[r][k].promises_converted <= converted_functions[r][k].promises_found
    /\ conversion_stats[r].promises_converted <= conversion_stats[r].promise_chains_found
    /\ \A k \in 1..Len(cresp[r].converted_functions) :
         cresp[r].converted_functions[k].promises_converted
           <= cresp[r].converted_functions[k].promises_found
    /\ cresp[r].statistics.promises_converted <= cresp[r].statistics.promise_chains_found

C7_Witness ==
  \E r \in Converts :
    /\ cpc[r] = "done"
    /\ cresp[r].status = "success"
    /\ cresp[r].converted_functions # <<>>
    /\ FailedFunctions(r) # {}
    /\ cresp[r].statistics.promises_converted < cresp[r].statistics.promise_chains_found

\* C8: for a 200 answer verify_repository returns is_javascript_typescript
\* true exactly when some key of the map equals "javascript" or "typescript"
\* case-insensitively, and returns the map unchanged.
C8_JsTsIffKeyIgnoringCase ==
  (vpc = "done" /\ github_calls # <<>> /\ upstream.kind = "response"
     /\ upstream.status_code = StatusOK)
  => /\ vresp.kind = "ok"
     /\ vresp.is_javascript_typescript
          = (\E key \in DOMAIN upstream.json :
               SameIgnoringCase(key, javascript) \/ SameIgnoringCase(key, typescript))
     /\ vresp.languages = upstream.json
     /\ upstream.json = NoLanguages => ~vresp.is_javascript_typescript

C8_Witness ==
  /\ vpc = "done"
  /\ vresp.kind = "ok"
  /\ vresp.is_javascript_typescript
  /\ javascript \notin DOMAIN vresp.languages
  /\ typescript \notin DOMAIN vresp.languages

\* C9 (as amended): two convert-to-async requests served by the same event
\* loop are never both between acquiring the repository handle and invoking
\* commit: the handler awaits nothing, so a request that has acquired a
\* handle returns before the other one starts.
C9_NeverBothBetweenAcquireAndCommit ==
  ~(BetweenAcquireAndCommit("c1") /\ BetweenAcquireAndCommit("c2"))

C9_Witness ==
  /\ BetweenAcquireAndCommit("c1")
  /\ cpc["c2"] = "pending"
  /\ vpc = "await_get"

\* C9 (as stated): the two requests come to be both between acquire and
\* commit.
C9_BothBetweenAcquireAndCommit ==
  <>(BetweenAcquireAndCommit("c1") /\ BetweenAcquireAndCommit("c2"))

\* C10: the chains a commit carries are exactly the chains of the functions
\* listed in converted_functions, and their number is the sum of
\* promises_converted over the records.
C10_CommitCarriesOnlyRecordedFunctions ==
  \A r \in Converts :
    \A k \in 1..Len(commits[r]) :
      /\ commits[r][k] =
           { c \in rewritten[r] :
               \E n \in 1..Len(converted_functions[r]) :
                 converted_functions[r][n].function_name = c[1] }
      /\ SumConverted(converted_functions[r]) = Cardinality(commits[r][k])

====
